---- MODULE Spec2Model ----
(***************************************************************************)
(* CCFF container files (libs/calypso_filety/src/ccff.rs): the in-memory   *)
(* ContainerFile / Section API and the encoder, with the decoder           *)
(* (ccff/parse.rs) as the format description gives it; and the reporting   *)
(* context for diagnostics (libs/calypso_diagnostic/src/report.rs).        *)
(*                                                                         *)
(* Values.  A byte is an integer 0..255.  A String is the sequence of its  *)
(* chars (Unicode scalar values); str_len and as_bytes give its UTF-8      *)
(* length and bytes.  Option<T> is a sequence of length 0 (None) or 1      *)
(* (Some).  An IndexMap<String, Section> is the sequence of its entries    *)
(* [name, section] in map order, names unique.                             *)
(***************************************************************************)
EXTENDS Integers, Sequences, FiniteSets, TLC

VARIABLES
    cf,       \* the ContainerFile the caller owns (after encode_to: the value that was moved in)
    call,     \* the last API call: [op, name, section], the arguments it has
    outcome,  \* how that call ended: "ok" or the assertion that panicked
    ret,      \* the Option<Section> that call returned (None when it returns nothing)
    out,      \* None until encode_to consumes cf, then Some([initial, buf]): the Vec<u8> before and after
    dec,      \* None until decode runs, then Some([buf, err, cf]): the bytes it was given and its result
    layout,   \* None, or Some(encode_to's header arithmetic on a container known by its sizes)
    grcx,     \* the GlobalReportingCtxt: [errors, nonfatals, fatal]
    fatal_reports  \* the values given to report_fatal since new() or the last clear_fatal / clear, in order

vars == <<cf, call, outcome, ret, out, dec, layout, grcx, fatal_reports>>

\* ------------------------------------------------------------------ values

None == <<>>

Some(v) == <<v>>

is_some(o) == Len(o) = 1

unwrap(o) == o[1]

Range(s) == {s[i] : i \in 1..Len(s)}

\* Sums and concatenations split in halves: the evaluation depth stays
\* logarithmic in the length.
RECURSIVE SumRange(_, _, _)
SumRange(s, lo, hi) ==
    IF lo > hi THEN 0
    ELSE IF lo = hi THEN s[lo]
    ELSE SumRange(s, lo, (lo + hi) \div 2) + SumRange(s, (lo + hi) \div 2 + 1, hi)

Sum(s) == SumRange(s, 1, Len(s))

RECURSIVE ConcatRange(_, _, _)
ConcatRange(ss, lo, hi) ==
    IF lo > hi THEN <<>>
    ELSE IF lo = hi THEN ss[lo]
    ELSE ConcatRange(ss, lo, (lo + hi) \div 2) \o ConcatRange(ss, (lo + hi) \div 2 + 1, hi)

Concat(ss) == ConcatRange(ss, 1, Len(ss))

\* v as u8: the low byte.
as_u8(v) == v % 256

\* The bytes most significant first (to_be_bytes).
to_be_bytes(v, n) == [i \in 1..n |-> (v \div (256 ^ (n - i))) % 256]

\* v.to_le_bytes() for an n-byte unsigned integer (v already of that width).
to_le_bytes(v, n) == [i \in 1..n |-> (v \div (256 ^ (i - 1))) % 256]

RECURSIVE from_le_bytes(_)
from_le_bytes(bs) == IF Len(bs) = 0 THEN 0 ELSE Head(bs) + 256 * from_le_bytes(Tail(bs))

\* v as u32: a usize keeps its four low bytes.
as_u32(v) == from_le_bytes(to_le_bytes(v, 4))

\* char::len_utf8
len_utf8(c) == IF c < 128 THEN 1 ELSE IF c < 2048 THEN 2 ELSE IF c < 65536 THEN 3 ELSE 4

\* The UTF-8 bytes of one char.
utf8(c) ==
    IF c < 128 THEN <<c>>
    ELSE IF c < 2048 THEN <<192 + (c \div 64), 128 + (c % 64)>>
    ELSE IF c < 65536 THEN <<224 + (c \div 4096), 128 + ((c \div 64) % 64), 128 + (c % 64)>>
    ELSE <<240 + (c \div 262144), 128 + ((c \div 4096) % 64), 128 + ((c \div 64) % 64), 128 + (c % 64)>>

\* str::len: the length in bytes.
str_len(name) == Sum([i \in 1..Len(name) |-> len_utf8(name[i])])

\* str::as_bytes
as_bytes(name) == Concat([i \in 1..Len(name) |-> utf8(name[i])])

\* char::is_ascii_graphic: U+0021 '!' ..= U+007E '~'
is_ascii_graphic(c) == 33 <= c /\ c <= 126

\* ---------------------------------------------------------------- Section

\* Section_new with the offset set to 0 rather than left out.
Section_new_zero(stype, flags) ==
    [stype |-> stype, flags |-> flags, offset |-> Some(0), data |-> <<>>]

Section_new(stype, flags) ==
    [stype |-> stype, flags |-> flags, offset |-> None, data |-> <<>>]

set_type(section, stype) == [section EXCEPT !.stype = stype]

set_flags(section, flags) == [section EXCEPT !.flags = flags]

\* mem::replace(&mut self.data, data); the previous data is the return value.
set_data(section, data) == [section EXCEPT !.data = data]

get_data(section) == section.data

get_offset(section) == section.offset

\* Section_sizeof without the byte that holds the name's length.
Section_sizeof_short(name) == 1 + 4 + 4 + 4 + str_len(name)

Section_sizeof(name) == 1 + 4 + 4 + 4 + 1 + str_len(name)

\* --------------------------------------------------------------- IndexMap

Keys(map) == [i \in 1..Len(map) |-> map[i].name]

Values(map) == [i \in 1..Len(map) |-> map[i].section]

contains_key(map, name) == \E i \in 1..Len(map) : map[i].name = name

get_index_of(map, name) == CHOOSE i \in 1..Len(map) : map[i].name = name

\* IndexMap::get / get_mut
map_get(map, name) ==
    IF contains_key(map, name) THEN Some(map[get_index_of(map, name)].section) ELSE None

\* insert that takes an existing key out and appends it again, at the end.
insert_last(map, name, section) ==
    [map |-> Append(SelectSeq(map, LAMBDA e : e.name # name),
                    [name |-> name, section |-> section]),
     old |-> map_get(map, name)]

\* insert that leaves an existing key with the value it has.
insert_keep_first(map, name, section) ==
    IF contains_key(map, name)
    THEN [map |-> map, old |-> Some(section)]
    ELSE [map |-> Append(map, [name |-> name, section |-> section]),
          old |-> None]

\* IndexMap::insert: an existing key keeps its place and gets the new value,
\* the old value is returned; a new key is appended and None is returned.
insert(map, name, section) ==
    IF contains_key(map, name)
    THEN [map |-> [map EXCEPT ![get_index_of(map, name)].section = section],
          old |-> map_get(map, name)]
    ELSE [map |-> Append(map, [name |-> name, section |-> section]),
          old |-> None]

\* IndexMap::swap_remove: the last entry takes the removed one's place.
swap_remove(map, name) ==
    IF contains_key(map, name)
    THEN [map |-> LET k == get_index_of(map, name)
                      n == Len(map)
                  IN  [i \in 1..(n - 1) |-> IF i = k THEN map[n] ELSE map[i]],
          old |-> map_get(map, name)]
    ELSE [map |-> map, old |-> None]

\* IndexMap::shift_remove: the entries after the removed one move up by one.
shift_remove(map, name) ==
    IF contains_key(map, name)
    THEN [map |-> SelectSeq(map, LAMBDA e : e.name # name),
          old |-> map_get(map, name)]
    ELSE [map |-> map, old |-> None]

\* ---------------------------------------------------------- ContainerFile

ContainerFile_new(abiver, filety) ==
    [abiver |-> abiver, filety |-> filety, sections |-> <<>>]

\* add_section_check with the name length compared to 255 exclusively.
add_section_check_short(self, name) ==
    IF ~(str_len(name) < 255) THEN "panic: section name must be shorter than 256 characters"
    ELSE IF ~(\A i \in 1..Len(name) : is_ascii_graphic(name[i]))
    THEN "panic: section name must not contain non-printable ASCII characters"
    ELSE IF ~(Len(self.sections) <= 255) THEN "panic: container file can only contain up to 255 sections"
    ELSE "ok"

\* The three assertions of add_section, in order; "ok" when all pass.
add_section_check(self, name) ==
    IF ~(str_len(name) <= 255) THEN "panic: section name must be shorter than 256 characters"
    ELSE IF ~(\A i \in 1..Len(name) : is_ascii_graphic(name[i]))
    THEN "panic: section name must not contain non-printable ASCII characters"
    ELSE IF ~(Len(self.sections) <= 255) THEN "panic: container file can only contain up to 255 sections"
    ELSE "ok"

add_section(name, section) ==
    /\ out = None
    /\ call' = [op |-> "add_section", name |-> name, section |-> Some(section)]
    /\ outcome' = add_section_check(cf, name)
    /\ IF outcome' = "ok"
       THEN /\ cf' = [cf EXCEPT !.sections = insert(cf.sections, name, section).map]
            /\ ret' = insert(cf.sections, name, section).old
       ELSE /\ cf' = cf
            /\ ret' = None
    /\ UNCHANGED <<out, dec, layout, grcx, fatal_reports>>

remove_section(name) ==
    /\ out = None
    /\ call' = [op |-> "remove_section", name |-> name, section |-> None]
    /\ outcome' = "ok"
    /\ cf' = [cf EXCEPT !.sections = shift_remove(cf.sections, name).map]
    /\ ret' = shift_remove(cf.sections, name).old
    /\ UNCHANGED <<out, dec, layout, grcx, fatal_reports>>

\* What a caller does with a &mut Section: one of the setters, or any change
\* of the Vec behind get_data_mut.
apply_mut(section, m) ==
    CASE m.op = "set_type" -> set_type(section, m.stype)
      [] m.op = "set_flags" -> set_flags(section, m.flags)
      [] m.op = "set_data" -> set_data(section, m.data)
      [] m.op = "get_data_mut" -> [section EXCEPT !.data = m.data]

\* get_section_mut(name), then m on the section it returned (if any).
get_section_mut(name, m) ==
    /\ out = None
    /\ call' = [op |-> "get_section_mut", name |-> name, section |-> None]
    /\ outcome' = "ok"
    /\ ret' = None
    /\ cf' = IF contains_key(cf.sections, name)
             THEN [cf EXCEPT !.sections[get_index_of(cf.sections, name)].section =
                        apply_mut(cf.sections[get_index_of(cf.sections, name)].section, m)]
             ELSE cf
    /\ UNCHANGED <<out, dec, layout, grcx, fatal_reports>>

\* sections_mut(), then m on every section the iterator yields.
sections_mut(m) ==
    /\ out = None
    /\ call' = [op |-> "sections_mut", name |-> <<>>, section |-> None]
    /\ outcome' = "ok"
    /\ ret' = None
    /\ cf' = [cf EXCEPT !.sections =
                [i \in 1..Len(cf.sections) |->
                    [cf.sections[i] EXCEPT !.section = apply_mut(cf.sections[i].section, m)]]]
    /\ UNCHANGED <<out, dec, layout, grcx, fatal_reports>>

size(self) ==
    4 + 2 + 1 + 1
    + Sum([i \in 1..Len(self.sections) |-> Section_sizeof(self.sections[i].name)])
    + Sum([i \in 1..Len(self.sections) |-> Len(get_data(self.sections[i].section))])

\* data_size < u32::MAX as usize, with u32::MAX = 65535 * 65536 + 65535
\* compared half by half.
lt_u32_MAX(n) ==
    \/ n \div 65536 < 65535
    \/ (n \div 65536 = 65535 /\ n % 65536 < 65535)

\* section_header that writes the offset the section has stored, if any.
section_header_stored(name, section, data_offset) ==
    <<section.stype>>
    \o to_le_bytes(section.flags, 4)
    \o to_le_bytes(IF is_some(section.offset) THEN unwrap(section.offset) ELSE data_offset, 4)
    \o to_le_bytes(as_u32(Len(section.data)), 4)
    \o <<as_u8(str_len(name))>>
    \o as_bytes(name)

\* One section header as the fold's closure pushes it.
section_header(name, section, data_offset) ==
    <<section.stype>>
    \o to_le_bytes(section.flags, 4)
    \o to_le_bytes(data_offset, 4)
    \o to_le_bytes(as_u32(Len(section.data)), 4)
    \o <<as_u8(str_len(name))>>
    \o as_bytes(name)

\* One call of the fold's closure: the assertion, the header pushed to buf,
\* the section's bytes added to data, and the next accumulator.  (The u32
\* sum data_offset + data_size stays far below 2^32 on the buffers built
\* here; its overflow is not reached.)
encode_step(name, section, data_offset) ==
    LET data_size == Len(section.data)
    IN  IF ~lt_u32_MAX(data_size)
        THEN [outcome |-> "panic: section data must be less than 4GiB in size",
              buf |-> <<>>, data |-> <<>>, data_offset |-> data_offset]
        ELSE [outcome |-> "ok",
              buf |-> section_header(name, section, data_offset),
              data |-> section.data,
              data_offset |-> data_offset + as_u32(data_size)]

\* The fold over entries lo..hi from the accumulator data_offset: what it
\* pushes to buf and to data, and the accumulator it ends with.  It ends at
\* the first failed assertion.  (Evaluated in halves, entry by entry in
\* order: the second half starts from the accumulator the first ends with.)
RECURSIVE encode_fold(_, _, _, _)
encode_fold(sections, lo, hi, data_offset) ==
    IF lo > hi
    THEN [outcome |-> "ok", buf |-> <<>>, data |-> <<>>, data_offset |-> data_offset]
    ELSE IF lo = hi
    THEN encode_step(sections[lo].name, sections[lo].section, data_offset)
    ELSE LET first == encode_fold(sections, lo, (lo + hi) \div 2, data_offset)
             second == encode_fold(sections, (lo + hi) \div 2 + 1, hi, first.data_offset)
         IN  IF first.outcome # "ok" THEN first
             ELSE [outcome |-> second.outcome,
                   buf |-> first.buf \o second.buf,
                   data |-> first.data \o second.data,
                   data_offset |-> second.data_offset]

\* The 8 bytes pushed before the headers.
preamble(self) ==
    <<67, 67, 70, 70>>
    \o to_le_bytes(self.abiver, 2)
    \o <<self.filety>>
    \o <<as_u8(Len(self.sections))>>

\* encode_to with the first data offset taken from the buffer's length
\* before the preamble is pushed.
encode_to_early(self, buf) ==
    LET buf1 == buf \o preamble(self)
        shdrs_size == Sum([i \in 1..Len(self.sections) |-> Section_sizeof(self.sections[i].name)])
        folded == encode_fold(self.sections, 1, Len(self.sections), as_u32(Len(buf) + shdrs_size))
    IN  IF folded.outcome = "ok"
        THEN [outcome |-> "ok", buf |-> buf1 \o folded.buf \o folded.data]
        ELSE [outcome |-> folded.outcome, buf |-> buf1 \o folded.buf]

\* encode_to that clears the buffer it is given first.
encode_to_cleared(self, buf) ==
    LET buf1 == preamble(self)
        shdrs_size == Sum([i \in 1..Len(self.sections) |-> Section_sizeof(self.sections[i].name)])
        folded == encode_fold(self.sections, 1, Len(self.sections), as_u32(Len(buf1) + shdrs_size))
    IN  IF folded.outcome = "ok"
        THEN [outcome |-> "ok", buf |-> buf1 \o folded.buf \o folded.data]
        ELSE [outcome |-> folded.outcome, buf |-> buf1 \o folded.buf]

\* encode_to: the outcome and the buffer it leaves ([outcome, buf]).
encode_to(self, buf) ==
    LET buf1 == buf \o preamble(self)
        shdrs_size == Sum([i \in 1..Len(self.sections) |-> Section_sizeof(self.sections[i].name)])
        folded == encode_fold(self.sections, 1, Len(self.sections), as_u32(Len(buf1) + shdrs_size))
    IN  IF folded.outcome = "ok"
        THEN [outcome |-> "ok", buf |-> buf1 \o folded.buf \o folded.data]
        ELSE [outcome |-> folded.outcome, buf |-> buf1 \o folded.buf]

\* encode: encode_to into a fresh Vec::with_capacity(self.size()).
encode(self) == encode_to(self, <<>>)

\* ------------------------------------------------------- unsigned integers

\* An unsigned integer of n bytes as the sequence of its n bytes, least
\* significant first: a u32 has 4 of them, a usize 8.  (The integers of the
\* checker end at 2^31 - 1; from_le_bytes is taken only of values below.)

\* The carry into byte i of a + b.
RECURSIVE carry(_, _, _)
carry(a, b, i) == IF i = 1 THEN 0 ELSE (a[i - 1] + b[i - 1] + carry(a, b, i - 1)) \div 256

\* a + b cut to the width of a and b (wrapping_add).
wrapping_add(a, b) == [i \in 1..Len(a) |-> (a[i] + b[i] + carry(a, b, i)) % 256]

\* a + b does not fit the width of a and b.
add_overflows(a, b) == carry(a, b, Len(a) + 1) = 1

\* a < b, for a and b of the same width.
lt(a, b) ==
    \E i \in 1..Len(a) : a[i] < b[i] /\ \A j \in (i + 1)..Len(a) : a[j] = b[j]

\* a <= b
le(a, b) == a = b \/ lt(a, b)

\* n as usize, for a length n that a buffer of the model has.
usize(n) == to_le_bytes(n, 4) \o <<0, 0, 0, 0>>

\* u as usize, for a u32 u.
u32_as_usize(u) == u \o <<0, 0, 0, 0>>

\* ------------------------------------------------------ encode_to by sizes

\* encode_to's arithmetic on a buffer and a container known by their sizes
\* only (a buffer or a section of 2^32 bytes is not written out): buf_len is
\* buf.len() on entry, a usize; a section is [name_len, data_size], the
\* length of its name and, as a usize, the length of its data.

\* u32::MAX as usize
u32_MAX_as_usize == <<255, 255, 255, 255, 0, 0, 0, 0>>

\* v as u32, for a usize v: the four low bytes.
usize_as_u32(v) == SubSeq(v, 1, 4)

\* The sum of usize values (none of the sums taken here leaves 64 bits).
RECURSIVE usize_sum(_)
usize_sum(vs) == IF Len(vs) = 0 THEN usize(0) ELSE wrapping_add(Head(vs), usize_sum(Tail(vs)))

\* data_size < u32::MAX as usize
data_size_check(data_size) == lt(data_size, u32_MAX_as_usize)

\* data_offset + data_size as u32.  The u32 addition panics when it
\* overflows in a build with overflow checks, and wraps in one without.
next_data_offset(data_offset, data_size, overflow_checks) ==
    IF add_overflows(data_offset, usize_as_u32(data_size)) /\ overflow_checks
    THEN [outcome |-> "panic: attempt to add with overflow", data_offset |-> data_offset]
    ELSE [outcome |-> "ok", data_offset |-> wrapping_add(data_offset, usize_as_u32(data_size))]

\* The fold from section i on: the (offset, length) fields of the headers it
\* pushes, and how it ends.  A header is pushed after the assertion on
\* data_size and before the addition.
RECURSIVE sized_fold(_, _, _, _)
sized_fold(sections, i, data_offset, overflow_checks) ==
    IF i > Len(sections) THEN [outcome |-> "ok", hdrs |-> <<>>]
    ELSE IF ~data_size_check(sections[i].data_size)
    THEN [outcome |-> "panic: section data must be less than 4GiB in size", hdrs |-> <<>>]
    ELSE LET hdr == [offset |-> data_offset, length |-> usize_as_u32(sections[i].data_size)]
             next == next_data_offset(data_offset, sections[i].data_size, overflow_checks)
             rest == sized_fold(sections, i + 1, next.data_offset, overflow_checks)
         IN  IF next.outcome # "ok" THEN [outcome |-> next.outcome, hdrs |-> <<hdr>>]
             ELSE [outcome |-> rest.outcome, hdrs |-> <<hdr>> \o rest.hdrs]

\* Section::sizeof of every section, summed.
sized_shdrs_size(sections) ==
    usize(Sum([i \in 1..Len(sections) |-> 1 + 4 + 4 + 4 + 1 + sections[i].name_len]))

\* encode_to: (buf.len() + shdrs_size) as u32 after the 8 bytes of the
\* preamble are pushed, then the fold.
encode_to_sized(buf_len, sections, overflow_checks) ==
    sized_fold(sections, 1,
               usize_as_u32(usize_sum(<<buf_len, usize(8), sized_shdrs_size(sections)>>)),
               overflow_checks)

\* The sizes of a container of the model.
sizes_of(self) ==
    [i \in 1..Len(self.sections) |->
        [name_len |-> str_len(self.sections[i].name),
         data_size |-> usize(Len(self.sections[i].section.data))]]

\* ----------------------------------------------------------------- decode

\* parse_headers that stops without an error where the bytes run out.
RECURSIVE parse_headers_lenient(_, _, _)
parse_headers_lenient(buf, pos, count) ==
    IF count = 0 THEN [err |-> "none", hdrs |-> <<>>]
    ELSE IF Len(buf) - pos < 14 THEN [err |-> "none", hdrs |-> <<>>]
    ELSE IF Len(buf) - pos - 14 < buf[pos + 14] THEN [err |-> "none", hdrs |-> <<>>]
    ELSE LET name_len == buf[pos + 14]
             hdr == [stype |-> buf[pos + 1],
                     flags |-> from_le_bytes(SubSeq(buf, pos + 2, pos + 5)),
                     offset |-> SubSeq(buf, pos + 6, pos + 9),
                     length |-> SubSeq(buf, pos + 10, pos + 13),
                     name |-> SubSeq(buf, pos + 15, pos + 14 + name_len)]
             rest == parse_headers_lenient(buf, pos + 14 + name_len, count - 1)
         IN  [err |-> rest.err, hdrs |-> <<hdr>> \o rest.hdrs]

\* `count` section headers read from byte offset pos (0-based) of buf:
\* type(1) flags(4) offset(4) length(4) name_len(1) name(name_len), each
\* read bounds-checked.  offset and length are kept as their 4 bytes.
RECURSIVE parse_headers(_, _, _)
parse_headers(buf, pos, count) ==
    IF count = 0 THEN [err |-> "none", hdrs |-> <<>>]
    ELSE IF Len(buf) - pos < 14 THEN [err |-> "truncated", hdrs |-> <<>>]
    ELSE IF Len(buf) - pos - 14 < buf[pos + 14] THEN [err |-> "truncated", hdrs |-> <<>>]
    ELSE LET name_len == buf[pos + 14]
             hdr == [stype |-> buf[pos + 1],
                     flags |-> from_le_bytes(SubSeq(buf, pos + 2, pos + 5)),
                     offset |-> SubSeq(buf, pos + 6, pos + 9),
                     length |-> SubSeq(buf, pos + 10, pos + 13),
                     name |-> SubSeq(buf, pos + 15, pos + 14 + name_len)]
             rest == parse_headers(buf, pos + 14 + name_len, count - 1)
         IN  [err |-> rest.err, hdrs |-> <<hdr>> \o rest.hdrs]

\* buf[offset .. offset + length] is a slice of a buffer of n bytes: the end
\* offset + length, taken in usize, is at most n.
in_buffer(offset, length, n) ==
    le(wrapping_add(u32_as_usize(offset), u32_as_usize(length)), usize(n))

\* header_in_range with the end offset + length taken in u32, wrapping.
header_in_range_wrapping(hdr, n) ==
    le(u32_as_usize(wrapping_add(hdr.offset, hdr.length)), usize(n))

\* Validation 4: the header's (offset, length) lies within the buffer.
header_in_range(hdr, n) == in_buffer(hdr.offset, hdr.length, n)

\* The sections of the headers from i on, inserted into map in header order;
\* each header's offset..offset+length must lie within buf.  (A slice taken
\* outside buf panics.)
RECURSIVE build_sections(_, _, _, _)
build_sections(buf, hdrs, i, map) ==
    IF i > Len(hdrs) THEN [err |-> "none", map |-> map]
    ELSE IF ~header_in_range(hdrs[i], Len(buf)) THEN [err |-> "range", map |-> map]
    ELSE IF ~in_buffer(hdrs[i].offset, hdrs[i].length, Len(buf))
    THEN [err |-> "panic: range end index out of range for slice", map |-> map]
    ELSE LET offset == from_le_bytes(hdrs[i].offset)
             length == from_le_bytes(hdrs[i].length)
         IN  build_sections(buf, hdrs, i + 1,
                insert(map, hdrs[i].name,
                       [stype |-> hdrs[i].stype,
                        flags |-> hdrs[i].flags,
                        offset |-> Some(offset),
                        data |-> SubSeq(buf, offset + 1, offset + length)]).map)

\* preamble_check with the magic compared before the length is looked at.
preamble_check_magic_first(buf) ==
    IF Len(buf) >= 4 /\ SubSeq(buf, 1, 4) # <<67, 67, 70, 70>> THEN "bad_magic"
    ELSE IF Len(buf) < 8 THEN "truncated"
    ELSE "none"

\* preamble_check with only "CCF" compared.
preamble_check_three(buf) ==
    IF Len(buf) < 8 THEN "truncated"
    ELSE IF SubSeq(buf, 1, 3) # <<67, 67, 70>> THEN "bad_magic"
    ELSE "none"

\* Validations 1 and 2: the 8-byte preamble is there, and starts with "CCFF".
preamble_check(buf) ==
    IF Len(buf) < 8 THEN "truncated"
    ELSE IF SubSeq(buf, 1, 4) # <<67, 67, 70, 70>> THEN "bad_magic"
    ELSE "none"

\* decode: [err, cf], err "none" with cf = Some(container), or the failure
\* ("truncated", "bad_magic", "range") with cf = None.
decode(buf) ==
    IF preamble_check(buf) # "none" THEN [err |-> preamble_check(buf), cf |-> None]
    ELSE LET parsed == parse_headers(buf, 8, buf[8])
             built == build_sections(buf, parsed.hdrs, 1, <<>>)
         IN  IF parsed.err # "none" THEN [err |-> parsed.err, cf |-> None]
             ELSE IF built.err # "none" THEN [err |-> built.err, cf |-> None]
             ELSE [err |-> "none",
                   cf |-> Some([abiver |-> from_le_bytes(SubSeq(buf, 5, 6)),
                                filety |-> buf[7],
                                sections |-> built.map])]

\* ----------------------------------------------------- GlobalReportingCtxt

\* libs/calypso_diagnostic/src/report.rs.  An EnsembleDiagnostic is a value
\* the context only stores.
GlobalReportingCtxt_new == [errors |-> <<>>, nonfatals |-> <<>>, fatal |-> None]

clear_syncd(self) == [self EXCEPT !.errors = <<>>]

clear_nonfatals(self) == [self EXCEPT !.nonfatals = <<>>]

clear_fatal(self) == [self EXCEPT !.fatal = None]

\* clear_fatal, clear_nonfatals, clear_syncd
clear(self) == clear_syncd(clear_nonfatals(clear_fatal(self)))

report_syncd(self, value) == [self EXCEPT !.errors = Append(self.errors, value)]

report_non_fatal(self, value) == [self EXCEPT !.nonfatals = Append(self.nonfatals, value)]

\* report_fatal that stores the value whether or not there is one already.
report_fatal_replacing(self, value) == [self EXCEPT !.fatal = Some(value)]

report_fatal(self, value) ==
    IF self.fatal = None THEN [self EXCEPT !.fatal = Some(value)] ELSE self

nonfatals(self) == self.nonfatals

fatal(self) == self.fatal

errors(self) == self.errors

\* The calls on the context.  fatal_reports follows them: a value more at
\* report_fatal, empty again at clear_fatal and clear.
call_clear_syncd ==
    /\ grcx' = clear_syncd(grcx)
    /\ UNCHANGED <<cf, call, outcome, ret, out, dec, layout, fatal_reports>>

call_clear_nonfatals ==
    /\ grcx' = clear_nonfatals(grcx)
    /\ UNCHANGED <<cf, call, outcome, ret, out, dec, layout, fatal_reports>>

call_clear_fatal ==
    /\ grcx' = clear_fatal(grcx)
    /\ fatal_reports' = <<>>
    /\ UNCHANGED <<cf, call, outcome, ret, out, dec, layout>>

call_clear ==
    /\ grcx' = clear(grcx)
    /\ fatal_reports' = <<>>
    /\ UNCHANGED <<cf, call, outcome, ret, out, dec, layout>>

call_report_syncd(value) ==
    /\ grcx' = report_syncd(grcx, value)
    /\ UNCHANGED <<cf, call, outcome, ret, out, dec, layout, fatal_reports>>

call_report_non_fatal(value) ==
    /\ grcx' = report_non_fatal(grcx, value)
    /\ UNCHANGED <<cf, call, outcome, ret, out, dec, layout, fatal_reports>>

call_report_fatal(value) ==
    /\ grcx' = report_fatal(grcx, value)
    /\ fatal_reports' = Append(fatal_reports, value)
    /\ UNCHANGED <<cf, call, outcome, ret, out, dec, layout>>

\* ------------------------------------------------- encode / decode calls

\* cf.encode_to(&mut buf) on a Vec holding `initial`: cf is moved into the
\* call, so no operation on it follows.
call_encode_to(initial) ==
    /\ out = None
    /\ call' = [op |-> "encode_to", name |-> <<>>, section |-> None]
    /\ outcome' = encode_to(cf, initial).outcome
    /\ ret' = None
    /\ out' = Some([initial |-> initial, buf |-> encode_to(cf, initial).buf])
    /\ UNCHANGED <<cf, dec, layout, grcx, fatal_reports>>

\* cf.encode()
call_encode ==
    /\ out = None
    /\ call' = [op |-> "encode", name |-> <<>>, section |-> None]
    /\ outcome' = encode(cf).outcome
    /\ ret' = None
    /\ out' = Some([initial |-> <<>>, buf |-> encode(cf).buf])
    /\ UNCHANGED <<cf, dec, layout, grcx, fatal_reports>>

\* cf.encode_to(&mut buf) for a buffer and a container given by their sizes,
\* in a build with or without overflow checks.  The container is moved into
\* the call: one call.
call_encode_to_sized(buf_len, sections, overflow_checks) ==
    /\ out = None
    /\ layout = None
    /\ call' = [op |-> "encode_to", name |-> <<>>, section |-> None]
    /\ outcome' = encode_to_sized(buf_len, sections, overflow_checks).outcome
    /\ layout' = Some([buf_len |-> buf_len,
                       sections |-> sections,
                       overflow_checks |-> overflow_checks,
                       hdrs |-> encode_to_sized(buf_len, sections, overflow_checks).hdrs])
    /\ UNCHANGED <<cf, ret, out, dec, grcx, fatal_reports>>

\* ContainerFile::decode(&buf)
call_decode_of(buf) ==
    /\ dec = None
    /\ call' = [op |-> "decode", name |-> <<>>, section |-> None]
    /\ outcome' = "ok"
    /\ ret' = None
    /\ dec' = Some([buf |-> buf, err |-> decode(buf).err, cf |-> decode(buf).cf])
    /\ UNCHANGED <<cf, out, layout, grcx, fatal_reports>>

\* ContainerFile::decode(&buf) on the encoded buffer.
call_decode ==
    /\ is_some(out)
    /\ call_decode_of(unwrap(out).buf)

\* ----------------------------------------------------------------- inputs

\* The longest data a caller of Spec stores in a section.
MaxData == 5

\* n copies of char c.
Repeat(c, n) == [i \in 1..n |-> c]

\* "a", "b", "c"
ShortNames == {<<97>>, <<98>>, <<99>>}

\* The (abiver, filety) pairs given to ContainerFile::new.
NewInputs == {<<1, 0>>, <<4660, 171>>}

\* The bytes 0, 1, 2, ... up to MaxData of them.
SomeData == [i \in 1..MaxData |-> i - 1]

\* Sections as a caller builds them: Section::new, then set_data.
SectionInputs ==
    {set_data(Section_new(1, 0), SomeData), Section_new(2, 16909060)}

MutInputs ==
    {[op |-> "set_type", stype |-> 2],
     [op |-> "set_flags", flags |-> 16909060],
     [op |-> "set_data", data |-> SomeData],
     [op |-> "get_data_mut", data |-> SomeData]}

\* What the Vec handed to encode_to already holds.
InitialInputs == {<<1, 2, 3>>}

\* ---------------------------------------------------------- specification

Init ==
    /\ \E p \in NewInputs : cf = ContainerFile_new(p[1], p[2])
    /\ call = [op |-> "new", name |-> <<>>, section |-> None]
    /\ outcome = "ok"
    /\ ret = None
    /\ out = None
    /\ dec = None
    /\ layout = None
    /\ grcx = GlobalReportingCtxt_new
    /\ fatal_reports = <<>>

Next ==
    \/ \E name \in ShortNames, section \in SectionInputs : add_section(name, section)
    \/ \E name \in ShortNames : remove_section(name)
    \/ \E name \in ShortNames, m \in MutInputs : get_section_mut(name, m)
    \/ \E m \in MutInputs : sections_mut(m)
    \/ \E initial \in InitialInputs : call_encode_to(initial)
    \/ call_encode
    \/ call_decode

Spec == Init /\ [][Next]_vars

\* ------------------------------------------- the names add_section takes

\* Names add_section must take: the empty name, '!' and '~' alone, and 255
\* of each.
GoodNames == {<<>>, <<33>>, <<126>>, Repeat(33, 255), Repeat(126, 255)}

\* Names add_section must refuse: a space, DEL, a control char, NUL, a space
\* inside, non-ASCII chars (U+0080, U+00E9), 256 bytes of '~', 128 two-byte
\* chars, 256 spaces.
BadNames ==
    {<<32>>, <<127>>, <<31>>, <<0>>, <<97, 32, 98>>, <<128>>, <<233>>,
     Repeat(126, 256), Repeat(233, 128), Repeat(32, 256)}

\* The most sections a caller of SpecNames holds at once.
MaxNamed == 2

NextNames ==
    \/ \E name \in GoodNames \cup BadNames :
          /\ (contains_key(cf.sections, name) \/ Len(cf.sections) < MaxNamed)
          /\ add_section(name, Section_new(1, 0))
    \/ \E name \in GoodNames \cup BadNames : remove_section(name)

SpecNames == Init /\ [][NextNames]_vars

\* ------------------------------------------------- filling the container

\* The i-th of a run of distinct two-char names.
FillName(i) == <<33 + (i \div 94), 33 + (i % 94)>>

InitFill ==
    /\ cf = ContainerFile_new(1, 0)
    /\ call = [op |-> "new", name |-> <<>>, section |-> None]
    /\ outcome = "ok"
    /\ ret = None
    /\ out = None
    /\ dec = None
    /\ layout = None
    /\ grcx = GlobalReportingCtxt_new
    /\ fatal_reports = <<>>

\* A caller that adds FillName(1), FillName(2), ... in turn, replaces the
\* first of them, takes the last one out again, and encodes.
NextFill ==
    \/ add_section(FillName(Len(cf.sections) + 1), Section_new(1, 0))
    \/ add_section(FillName(1), Section_new(2, 16909060))
    \/ remove_section(FillName(Len(cf.sections)))
    \/ call_encode

SpecFill == InitFill /\ [][NextFill]_vars

\* ------------------------------------------------- decoding what arrives

\* The most sections a caller of SpecDecode holds at once.
MaxDecoded == 2

\* The first n bytes of b.
Truncate(b, n) == SubSeq(b, 1, n)

\* b with byte p (1-based) set to v.
Poke(b, p, v) == [b EXCEPT ![p] = v]

\* Byte values written anywhere ('a' makes two names equal), and the ones
\* written into the preamble ('G' as in "CCFG", 255 as a section count).
PokeValues == {0, 2, 97, 127}

PreambleValues == {0, 71, 255}

\* The (offset, length) pairs written into a header of a buffer of n bytes:
\* the whole buffer, the empty slice at its end, one byte past its end, a
\* start past its end, and pairs whose sum does not fit 32 bits.
RangeInputs(n) ==
    {<<to_le_bytes(0, 4), to_le_bytes(n, 4)>>,
     <<to_le_bytes(n, 4), to_le_bytes(0, 4)>>,
     <<to_le_bytes(n, 4), to_le_bytes(1, 4)>>,
     <<to_le_bytes(n + 1, 4), to_le_bytes(0, 4)>>,
     <<to_le_bytes(0, 4), <<255, 255, 255, 255>> >>,
     <<(<<255, 255, 255, 255>>), to_le_bytes(2, 4)>>,
     <<(<<255, 255, 255, 255>>), <<255, 255, 255, 255>> >>,
     <<(<<1, 0, 0, 128>>), <<255, 255, 255, 127>> >>}

\* The 0-based position in encode(self) of the header of section k.
HeaderPos(self, k) ==
    8 + Sum([j \in 1..(k - 1) |-> Section_sizeof(self.sections[j].name)])

\* b with the offset and length fields of the header at pos set to r.
SetRange(b, pos, r) ==
    SubSeq(b, 1, pos + 5) \o r[1] \o r[2] \o SubSeq(b, pos + 14, Len(b))

\* What may arrive in place of b = encode(self): b itself, b cut short,
\* b with one byte changed, a preamble with one byte changed and cut to 0..8
\* bytes, b with the section count set to 255, b with one header's
\* (offset, length) changed.
Tampered(self, b) ==
    {b}
    \cup {Truncate(b, n) : n \in 0..Len(b)}
    \cup {Poke(b, p, v) : p \in 1..Len(b), v \in PokeValues}
    \cup {Truncate(Poke(b, p, v), n) : p \in 1..8, v \in PreambleValues, n \in 0..8}
    \cup {Poke(b, p, v) : p \in 1..8, v \in PreambleValues}
    \cup {SetRange(b, HeaderPos(self, k), r) : k \in 1..Len(self.sections), r \in RangeInputs(Len(b))}

NextDecode ==
    \/ \E name \in ShortNames, section \in SectionInputs :
          /\ Len(cf.sections) < MaxDecoded
          /\ add_section(name, section)
    \/ call_encode
    \/ /\ is_some(out)
       /\ \E b \in Tampered(cf, unwrap(out).buf) : call_decode_of(b)

SpecDecode == Init /\ [][NextDecode]_vars

\* ------------------------------------------------- sizes near 2^32 bytes

\* The most sections of a container of SpecSizes.
MaxSized == 2

\* buf.len() on entry: 0, 3, 2^32 - 24 (a first offset of 2^32 - 1 for one
\* section with a name of one byte), 2^32.
BufLenInputs ==
    {usize(0), usize(3), <<232, 255, 255, 255, 0, 0, 0, 0>>, <<0, 0, 0, 0, 1, 0, 0, 0>>}

\* Data lengths: 0, 5, 2^31, 2^32 - 2, 2^32 - 1, 2^32, 2^32 + 1.
DataSizeInputs ==
    {usize(0), usize(5), <<0, 0, 0, 128, 0, 0, 0, 0>>,
     <<254, 255, 255, 255, 0, 0, 0, 0>>, <<255, 255, 255, 255, 0, 0, 0, 0>>,
     <<0, 0, 0, 0, 1, 0, 0, 0>>, <<1, 0, 0, 0, 1, 0, 0, 0>>}

\* Containers of 1..MaxSized sections with names of one byte.
SizedInputs ==
    UNION {[1..n -> {[name_len |-> 1, data_size |-> d] : d \in DataSizeInputs}] : n \in 1..MaxSized}

NextSizes ==
    \E buf_len \in BufLenInputs, sections \in SizedInputs, overflow_checks \in BOOLEAN :
        call_encode_to_sized(buf_len, sections, overflow_checks)

SpecSizes == Init /\ [][NextSizes]_vars

\* ------------------------------------------------- reporting diagnostics

\* The most diagnostics reported to one list, and the most fatal reports
\* between two clears.
MaxReported == 2

\* The EnsembleDiagnostic values reported.
Diagnostics == {"d1", "d2"}

NextReport ==
    \/ call_clear_syncd
    \/ call_clear_nonfatals
    \/ call_clear_fatal
    \/ call_clear
    \/ \E value \in Diagnostics :
          /\ Len(grcx.errors) < MaxReported
          /\ call_report_syncd(value)
    \/ \E value \in Diagnostics :
          /\ Len(grcx.nonfatals) < MaxReported
          /\ call_report_non_fatal(value)
    \/ \E value \in Diagnostics :
          /\ Len(fatal_reports) < MaxReported
          /\ call_report_fatal(value)

SpecReport == Init /\ [][NextReport]_vars

\* ----------------------------------------------------------------- claims

\* C1: in every state reachable from new by add_section, remove_section,
\* get_section_mut and sections_mut, the container holds at most 255
\* sections.  (add_section asserts len <= 255 before the insert, so a 256th
\* name goes in: SpecFill reaches 256 sections.)
C1_AtMost255Sections == Len(cf.sections) <= 255

\* C2: add_section with a name not yet present, on a container that already
\* holds 255 sections, fails and leaves the sections unchanged.  (It
\* succeeds: the assertion compares the count before the insert with 255
\* inclusive.)
C2_Rejects256thName ==
    [][(/\ call'.op = "add_section"
        /\ Len(cf.sections) = 255
        /\ ~contains_key(cf.sections, call'.name))
       => (outcome' # "ok" /\ cf'.sections = cf.sections)]_vars

\* The name invariant: at most 255 bytes, each in 0x21..0x7E.
NameInvariant(name) ==
    /\ Len(as_bytes(name)) <= 255
    /\ \A b \in Range(as_bytes(name)) : 33 <= b /\ b <= 126

\* C3: add_section refuses a name longer than 255 bytes or with a byte
\* outside 0x21..0x7E and leaves the container as it was; it takes every
\* name of 0..255 bytes in 0x21..0x7E while fewer than 255 sections are
\* held; so every key of the container satisfies the name invariant.
C3_NameValidation ==
    /\ [](\A i \in 1..Len(cf.sections) : NameInvariant(cf.sections[i].name))
    /\ [][call'.op = "add_section"
          => IF NameInvariant(call'.name)
             THEN Len(cf.sections) < 255
                  => (outcome' = "ok" /\ contains_key(cf'.sections, call'.name))
             ELSE outcome' # "ok" /\ cf' = cf /\ ret' = None]_vars

\* A container that took a name of 255 bytes has just refused one of 256.
C3_Witness ==
    /\ call.op = "add_section"
    /\ call.name = Repeat(126, 256)
    /\ outcome # "ok"
    /\ contains_key(cf.sections, Repeat(126, 255))

\* --- what encode_to left, read back from the buffer

EncInitial == unwrap(out).initial

EncBuf == unwrap(out).buf

NameLen(i) == Len(as_bytes(cf.sections[i].name))

DataLen(i) == Len(cf.sections[i].section.data)

\* The size of section i's header: type(1) flags(4) offset(4) length(4)
\* name_len(1) name.
HeaderBytes(i) == 14 + NameLen(i)

AllHeaderBytes == Sum([i \in 1..Len(cf.sections) |-> HeaderBytes(i)])

AllDataBytes == Sum([i \in 1..Len(cf.sections) |-> DataLen(i)])

\* The index (0-based) in EncBuf of the first byte of section i's header.
HeaderStart(i) == Len(EncInitial) + 8 + Sum([j \in 1..(i - 1) |-> HeaderBytes(j)])

\* The little-endian u32 in the four bytes of buf from index pos (0-based).
U32At(buf, pos) ==
    buf[pos + 1] + 256 * buf[pos + 2] + 65536 * buf[pos + 3] + 16777216 * buf[pos + 4]

\* The four bytes of v, least significant first.
U32Bytes(v) == <<v % 256, (v \div 256) % 256, (v \div 65536) % 256, (v \div 16777216) % 256>>

\* The data offset written in section i's header.
WrittenOffset(i) == U32At(EncBuf, HeaderStart(i) + 5)

\* Scenario A: new(1, 0) with the section "text" (type 1, flags 0, data 0..4).
ScenarioA ==
    [ContainerFile_new(1, 0) EXCEPT !.sections =
        insert(<<>>, <<116, 101, 120, 116>>,
               set_data(Section_new(1, 0), <<0, 1, 2, 3, 4>>)).map]

\* C4: size() is the length of the buffer encode() returns: 8 bytes of
\* preamble, 14 + len(name) bytes per section header, len(data) bytes per
\* section; for scenario A that is 8 + (14 + 4) + 5 = 31.
C4_SizeIsEncodedLength ==
    /\ size(ScenarioA) = 31
    /\ Len(encode(ScenarioA).buf) = 31
    /\ (is_some(out) /\ call.op = "encode")
       => /\ outcome = "ok"
          /\ size(cf) = Len(EncBuf)
          /\ Len(EncBuf) = 8 + AllHeaderBytes + AllDataBytes

\* encode() has returned the bytes of three sections, some with data.
C4_Witness ==
    /\ is_some(out)
    /\ call.op = "encode"
    /\ Len(cf.sections) = 3
    /\ AllDataBytes > 0
    /\ Len(EncBuf) = size(cf)

\* C5: decode(encode(cf)) succeeds with the same abiver, filety, names in the
\* same order and, per section, the same type, flags and data; only the
\* offset changes, from None to the offset the encoder wrote.
C5_RoundTrip ==
    (is_some(dec) /\ EncInitial = <<>>)
    => /\ unwrap(dec).err = "none"
       /\ LET d == unwrap(unwrap(dec).cf)
          IN  /\ d.abiver = cf.abiver
              /\ d.filety = cf.filety
              /\ Keys(d.sections) = Keys(cf.sections)
              /\ \A i \in 1..Len(cf.sections) :
                    /\ d.sections[i].section.stype = cf.sections[i].section.stype
                    /\ d.sections[i].section.flags = cf.sections[i].section.flags
                    /\ d.sections[i].section.data = cf.sections[i].section.data
                    /\ cf.sections[i].section.offset = None
                    /\ d.sections[i].section.offset = Some(WrittenOffset(i))

\* A container of three sections, with data, flags and abiver of more than
\* one byte, has been encoded and decoded.
C5_Witness ==
    /\ is_some(dec)
    /\ EncInitial = <<>>
    /\ unwrap(dec).err = "none"
    /\ Len(cf.sections) = 3
    /\ cf.abiver = 4660
    /\ \E i \in 1..3 : cf.sections[i].section.flags = 16909060 /\ DataLen(i) > 0
    /\ \E i \in 1..3 : DataLen(i) = 0

ExpectedHeader(i, offset) ==
    <<cf.sections[i].section.stype>>
    \o U32Bytes(cf.sections[i].section.flags)
    \o U32Bytes(offset)
    \o U32Bytes(DataLen(i))
    \o <<NameLen(i)>>
    \o cf.sections[i].name

\* The bytes expected after the initial content: magic, abiver (2, LE),
\* filety, section count, the headers in order, the data in order.
ExpectedBytes ==
    <<67, 67, 70, 70, cf.abiver % 256, cf.abiver \div 256, cf.filety, Len(cf.sections)>>
    \o Concat([i \in 1..Len(cf.sections) |->
                 ExpectedHeader(i, Len(EncInitial) + 8 + AllHeaderBytes
                                   + Sum([j \in 1..(i - 1) |-> DataLen(j)]))])
    \o Concat([i \in 1..Len(cf.sections) |-> cf.sections[i].section.data])

\* C7: encode writes "CCFF", abiver (2 bytes LE), filety, the number of
\* sections, one header per section in order (type, flags LE, offset LE,
\* length LE, name length, name), then the data of all sections in order and
\* nothing else; scenario A starts with C C F F 01 00 00 01.  (With the 256
\* sections that C1 shows reachable, the count written is 256 as u8 = 0:
\* the formula holds up to 255 sections and fails in SpecFill at 256.)
C7_Layout ==
    /\ SubSeq(encode(ScenarioA).buf, 1, 8) = <<67, 67, 70, 70, 1, 0, 0, 1>>
    /\ is_some(out) => EncBuf = EncInitial \o ExpectedBytes

\* Scenario B: add "a", add "b", remove "a", add "c".
ScenarioB ==
    LET s0 == Section_new(1, 0)
        m1 == insert(<<>>, <<97>>, s0).map
        m2 == insert(m1, <<98>>, s0).map
        m3 == shift_remove(m2, <<97>>).map
    IN  insert(m3, <<99>>, s0).map

\* seq without its k-th element.
Without(seq, k) == SubSeq(seq, 1, k - 1) \o SubSeq(seq, k + 1, Len(seq))

\* C8: the order of the sections is the order of insertion: add_section
\* with a new name puts the section last; remove_section(name) takes out
\* that section only and the others keep their order; remove_section of an
\* absent name returns None and changes nothing; scenario B ends as [b, c].
C8_InsertionOrder ==
    [][/\ Keys(ScenarioB) = <<(<<98>>), (<<99>>)>>
       /\ (call'.op = "add_section" /\ outcome' = "ok" /\ ~contains_key(cf.sections, call'.name))
          => /\ Len(cf'.sections) = Len(cf.sections) + 1
             /\ SubSeq(cf'.sections, 1, Len(cf.sections)) = cf.sections
             /\ cf'.sections[Len(cf'.sections)].name = call'.name
       /\ call'.op = "remove_section"
          => IF \E k \in 1..Len(cf.sections) : cf.sections[k].name = call'.name
             THEN \E k \in 1..Len(cf.sections) :
                     /\ cf.sections[k].name = call'.name
                     /\ cf'.sections = Without(cf.sections, k)
                     /\ ret' = Some(cf.sections[k].section)
             ELSE cf' = cf /\ ret' = None]_vars

\* remove_section("a") has taken one of three sections out and left "b"
\* before "c".
C8_Witness ==
    /\ call.op = "remove_section"
    /\ call.name = <<97>>
    /\ is_some(ret)
    /\ Keys(cf.sections) = <<(<<98>>), (<<99>>)>>

\* C9: add_section with a name already present puts the new section in the
\* old one's place, returns the old one, and leaves the number of sections
\* and every other section as they were; with a new name it returns None.
\* This is what a call that add_section's assertions let through does; which
\* calls they let through is the matter of C2 and C3.
C9_ReplaceInPlace ==
    [][(call'.op = "add_section" /\ outcome' = "ok")
       => IF \E k \in 1..Len(cf.sections) : cf.sections[k].name = call'.name
          THEN \E k \in 1..Len(cf.sections) :
                  /\ cf.sections[k].name = call'.name
                  /\ ret' = Some(cf.sections[k].section)
                  /\ Len(cf'.sections) = Len(cf.sections)
                  /\ cf'.sections[k] = [name |-> call'.name, section |-> unwrap(call'.section)]
                  /\ \A j \in 1..Len(cf.sections) : j # k => cf'.sections[j] = cf.sections[j]
          ELSE /\ ret' = None
               /\ cf'.sections = Append(cf.sections,
                                        [name |-> call'.name, section |-> unwrap(call'.section)])]_vars

\* add_section has replaced the first of three sections by a different one.
C9_Witness ==
    /\ call.op = "add_section"
    /\ outcome = "ok"
    /\ is_some(ret)
    /\ unwrap(ret) # unwrap(call.section)
    /\ Len(cf.sections) = 3
    /\ cf.sections[1] = [name |-> call.name, section |-> unwrap(call.section)]

\* C10: the offset of a section made in memory is None and stays None under
\* Section::new, the setters, get_data_mut, add_section and remove_section
\* (in the container and in what they return); the sections decode makes
\* have an offset.
C10_OffsetOnlyFromDecode ==
    /\ \A i \in 1..Len(cf.sections) : get_offset(cf.sections[i].section) = None
    /\ is_some(ret) => get_offset(unwrap(ret)) = None
    /\ is_some(call.section) => get_offset(unwrap(call.section)) = None
    /\ (is_some(dec) /\ unwrap(dec).err = "none")
       => \A i \in 1..Len(unwrap(unwrap(dec).cf).sections) :
             is_some(get_offset(unwrap(unwrap(dec).cf).sections[i].section))

\* A section whose type, flags and data were set after it was added has
\* been through encode and decode.
C10_Witness ==
    /\ is_some(dec)
    /\ unwrap(dec).err = "none"
    /\ Len(cf.sections) >= 2
    /\ \E i \in 1..Len(cf.sections) :
          /\ cf.sections[i].section = set_data(set_flags(set_type(Section_new(1, 0), 2), 16909060), SomeData)
          /\ get_offset(cf.sections[i].section) = None
          /\ is_some(get_offset(unwrap(unwrap(dec).cf).sections[i].section))

\* What decode was given, and what it returned.
DecBuf == unwrap(dec).buf

DecErr == unwrap(dec).err

DecCf == unwrap(unwrap(dec).cf)

\* DecBuf has its preamble, and every header its count byte declares.
HeadersParse ==
    /\ Len(DecBuf) >= 8
    /\ SubSeq(DecBuf, 1, 4) = <<67, 67, 70, 70>>
    /\ parse_headers(DecBuf, 8, DecBuf[8]).err = "none"

DecHeaders == parse_headers(DecBuf, 8, DecBuf[8]).hdrs

\* C11: whatever bytes decode is given, it returns a container or one of the
\* three errors and never panics; the data of every section it returns is
\* the slice offset..offset+length of the buffer, inside the buffer; and when
\* the headers parse and one of them declares a range that is not inside the
\* buffer (also when offset + length does not fit 32 bits), the result is
\* the range error.
C11_DecodeSafe ==
    is_some(dec)
    => /\ DecErr \in {"none", "truncated", "bad_magic", "range"}
       /\ (DecErr = "none") = is_some(unwrap(dec).cf)
       /\ DecErr = "none"
          => \A i \in 1..Len(DecCf.sections) :
                LET section == DecCf.sections[i].section
                IN  /\ is_some(section.offset)
                    /\ unwrap(section.offset) + Len(section.data) <= Len(DecBuf)
                    /\ section.data = SubSeq(DecBuf, unwrap(section.offset) + 1,
                                             unwrap(section.offset) + Len(section.data))
       /\ (HeadersParse /\ \E i \in 1..Len(DecHeaders) :
                              ~in_buffer(DecHeaders[i].offset, DecHeaders[i].length, Len(DecBuf)))
          => DecErr = "range"

\* decode has returned the range error for a header whose offset + length
\* does not fit 32 bits.
C11_Witness ==
    /\ is_some(dec)
    /\ DecErr = "range"
    /\ HeadersParse
    /\ \E i \in 1..Len(DecHeaders) : add_overflows(DecHeaders[i].offset, DecHeaders[i].length)

\* C12: decode of a buffer of 0 to 7 bytes returns the truncation error,
\* whatever the bytes are (also when they do not start with "CCFF").
C12_ShortIsTruncated ==
    (is_some(dec) /\ Len(DecBuf) < 8) => DecErr = "truncated"

\* decode has returned the truncation error for 7 bytes that do not start
\* with "CCFF".
C12_Witness ==
    /\ is_some(dec)
    /\ Len(DecBuf) = 7
    /\ SubSeq(DecBuf, 1, 4) # <<67, 67, 70, 70>>
    /\ DecErr = "truncated"

\* C13: decode of a buffer of 8 bytes or more that does not start with
\* "CCFF" returns the bad-magic error, whatever the other bytes are.
C13_BadMagic ==
    (is_some(dec) /\ Len(DecBuf) >= 8 /\ SubSeq(DecBuf, 1, 4) # <<67, 67, 70, 70>>)
    => DecErr = "bad_magic"

\* decode has returned the bad-magic error for "CCFG" followed by the rest
\* of a container with two sections.
C13_Witness ==
    /\ is_some(dec)
    /\ Len(cf.sections) = 2
    /\ DecBuf = Poke(unwrap(out).buf, 4, 71)
    /\ DecErr = "bad_magic"

\* C14: when the count byte declares more headers than the bytes after the
\* preamble can hold (a header takes 14 bytes at least), and when the count
\* byte of an encoded container is set to 255, decode returns the truncation
\* or the range error.
C14_CountTooLarge ==
    (/\ is_some(dec)
     /\ Len(DecBuf) >= 8
     /\ SubSeq(DecBuf, 1, 4) = <<67, 67, 70, 70>>
     /\ \/ Len(DecBuf) - 8 < 14 * DecBuf[8]
        \/ DecBuf = Poke(unwrap(out).buf, 8, 255))
    => DecErr \in {"truncated", "range"}

\* decode has returned an error for an encoded container of two sections
\* whose count byte was set to 255.
C14_Witness ==
    /\ is_some(dec)
    /\ Len(cf.sections) = 2
    /\ DecBuf = Poke(unwrap(out).buf, 8, 255)
    /\ DecErr \in {"truncated", "range"}

\* C15: for the container d1 = decode(encode(cf)), decode(encode(d1)) is d1
\* again, offsets included; and encode_to writes for d1, whose sections have
\* an offset stored, what it writes for cf, whose sections have none, also
\* behind other content.
C15_Idempotent ==
    (is_some(dec) /\ DecBuf = encode(cf).buf)
    => /\ DecErr = "none"
       /\ decode(encode(DecCf).buf) = [err |-> "none", cf |-> Some(DecCf)]
       /\ \A initial \in InitialInputs : encode_to(DecCf, initial) = encode_to(cf, initial)

\* decode has returned a container of three sections, two with data, from
\* what encode wrote, and every section of it has an offset.
C15_Witness ==
    /\ is_some(dec)
    /\ DecBuf = encode(cf).buf
    /\ DecErr = "none"
    /\ Len(DecCf.sections) = 3
    /\ Len(DecCf.sections[1].section.data) > 0
    /\ Len(DecCf.sections[2].section.data) > 0
    /\ \A i \in 1..3 : is_some(DecCf.sections[i].section.offset)
    /\ decode(encode(DecCf).buf).cf = Some(DecCf)

\* C16: encode_to only appends: the bytes the buffer held are still there,
\* at the same indexes, and size() bytes follow them.
C16_OnlyAppends ==
    is_some(out)
    => /\ Len(EncBuf) = Len(EncInitial) + size(cf)
       /\ SubSeq(EncBuf, 1, Len(EncInitial)) = EncInitial

\* encode_to has appended a container of two sections with data to a
\* buffer that held three bytes.
C16_Witness ==
    /\ is_some(out)
    /\ call.op = "encode_to"
    /\ EncInitial = <<1, 2, 3>>
    /\ Len(cf.sections) >= 2
    /\ DataLen(1) > 0
    /\ DataLen(2) > 0
    /\ Len(EncBuf) = 3 + size(cf)

\* C17: encode and encode_to check the number of sections again: with more
\* than 255 sections they fail, and in every buffer they do write the count
\* byte is the number of sections, one header each.  (encode_to has no such
\* assertion: it writes len() as u8, and with the 256 sections of C1 that
\* is 0.)
C17_EncodeReasserts ==
    (is_some(out) /\ call.op \in {"encode", "encode_to"})
    => /\ Len(cf.sections) > 255 => outcome # "ok"
       /\ outcome = "ok" => EncBuf[Len(EncInitial) + 8] = Len(cf.sections)

\* The arithmetic by sizes gives the offset and length fields that encode_to
\* writes into the buffer, for every container and buffer of Spec.
SizedAgrees ==
    (is_some(out) /\ encode_to(cf, EncInitial).outcome = "ok")
    => \A overflow_checks \in BOOLEAN :
          LET sized == encode_to_sized(usize(Len(EncInitial)), sizes_of(cf), overflow_checks)
          IN  /\ sized.outcome = "ok"
              /\ Len(sized.hdrs) = Len(cf.sections)
              /\ \A i \in 1..Len(cf.sections) :
                    /\ sized.hdrs[i].offset = SubSeq(EncBuf, HeaderStart(i) + 6, HeaderStart(i) + 9)
                    /\ sized.hdrs[i].length = SubSeq(EncBuf, HeaderStart(i) + 10, HeaderStart(i) + 13)

\* The call by sizes that was made.
Lay == unwrap(layout)

\* 2^32 as a usize.
TwoPow32 == <<0, 0, 0, 0, 1, 0, 0, 0>>

\* Where the data of section k starts in the buffer, as a usize: the buffer's
\* length on entry, the preamble, the headers, the data before it.  For
\* k = number of sections + 1, the length of the whole buffer.
TrueOffset(k) ==
    usize_sum(<<Lay.buf_len, usize(8), sized_shdrs_size(Lay.sections)>>
              \o [j \in 1..(k - 1) |-> Lay.sections[j].data_size])

\* C18: encode_to takes every section whose data is shorter than 2^32 bytes:
\* the data-size panic happens only at a section of 2^32 bytes or more; and
\* the length field of every header written is the true data length.  (The
\* assertion is data_size < u32::MAX: a section of 2^32 - 1 bytes panics.)
C18_AcceptsBelow2Pow32 ==
    is_some(layout)
    => /\ \A k \in 1..Len(Lay.hdrs) : u32_as_usize(Lay.hdrs[k].length) = Lay.sections[k].data_size
       /\ outcome = "panic: section data must be less than 4GiB in size"
          => ~lt(Lay.sections[Len(Lay.hdrs) + 1].data_size, TwoPow32)

\* C19: when the buffer's length on entry plus preamble, headers and data
\* does not fit 32 bits, encode_to panics; and the offset field of every
\* header written is the true offset of the section's data.  (The first
\* offset is cut by `as u32` in every build, and the u32 addition wraps in a
\* build without overflow checks.)
C19_PanicsWhenTooMuch ==
    is_some(layout)
    => /\ ~lt(TrueOffset(Len(Lay.sections) + 1), TwoPow32) => outcome # "ok"
       /\ \A k \in 1..Len(Lay.hdrs) : u32_as_usize(Lay.hdrs[k].offset) = TrueOffset(k)

\* C20: fatal() is the value of the first report_fatal since new() or the
\* last clear_fatal / clear, None when there was none; and a report_fatal
\* call leaves errors() and nonfatals() as they were.
C20_FirstFatalKept ==
    /\ [](fatal(grcx) = IF fatal_reports = <<>> THEN None ELSE Some(fatal_reports[1]))
    /\ [][Len(fatal_reports') = Len(fatal_reports) + 1
          => /\ errors(grcx') = errors(grcx)
             /\ nonfatals(grcx') = nonfatals(grcx)]_vars

\* report_fatal was called twice with different values, with errors and
\* nonfatals reported, and fatal() is the first value.
C20_Witness ==
    /\ Len(fatal_reports) = 2
    /\ fatal_reports[1] # fatal_reports[2]
    /\ fatal(grcx) = Some(fatal_reports[1])
    /\ errors(grcx) # <<>>
    /\ nonfatals(grcx) # <<>>

\* C21: add_section with a valid name that is already present is never
\* refused for the number of sections: it succeeds and replaces the section,
\* at 255 sections and at any other number a container can come to hold.
\* (The assertion len <= 255 is made for every call, so at the 256 sections
\* of C1 a replacement panics as well.)
C21_ReplaceNeverRejected ==
    [][(/\ call'.op = "add_section"
        /\ contains_key(cf.sections, call'.name)
        /\ str_len(call'.name) <= 255
        /\ \A i \in 1..Len(call'.name) : is_ascii_graphic(call'.name[i]))
       => /\ outcome' = "ok"
          /\ Len(cf'.sections) = Len(cf.sections)
          /\ map_get(cf'.sections, call'.name) = call'.section]_vars

\* The last header of DecBuf that has the name of header i.
LastNamed(i) ==
    CHOOSE j \in i..Len(DecHeaders) :
        /\ DecHeaders[j].name = DecHeaders[i].name
        /\ \A k \in (j + 1)..Len(DecHeaders) : DecHeaders[k].name # DecHeaders[i].name

\* C22: decode takes a buffer in which two headers have the same name (the
\* headers parse and their ranges lie in the buffer): it returns a container
\* with one section for each name, and that section's type, flags, offset
\* and data are those of the last header with the name.
C22_DuplicateKeepsLast ==
    (/\ is_some(dec)
     /\ HeadersParse
     /\ \A i \in 1..Len(DecHeaders) :
           in_buffer(DecHeaders[i].offset, DecHeaders[i].length, Len(DecBuf)))
    => /\ DecErr = "none"
       /\ Range(Keys(DecCf.sections)) = {DecHeaders[i].name : i \in 1..Len(DecHeaders)}
       /\ Cardinality(Range(Keys(DecCf.sections))) = Len(DecCf.sections)
       /\ \A i \in 1..Len(DecHeaders) :
             LET hdr == DecHeaders[LastNamed(i)]
                 section == unwrap(map_get(DecCf.sections, DecHeaders[i].name))
             IN  /\ section.stype = hdr.stype
                 /\ section.flags = hdr.flags
                 /\ section.offset = Some(from_le_bytes(hdr.offset))
                 /\ section.data = SubSeq(DecBuf, from_le_bytes(hdr.offset) + 1,
                                          from_le_bytes(hdr.offset) + from_le_bytes(hdr.length))

\* decode has returned one section for two headers of the same name that
\* differ in type, offset and length; the section is the second header's.
C22_Witness ==
    /\ is_some(dec)
    /\ HeadersParse
    /\ DecErr = "none"
    /\ Len(DecHeaders) = 2
    /\ DecHeaders[1].name = DecHeaders[2].name
    /\ DecHeaders[1].stype # DecHeaders[2].stype
    /\ DecHeaders[1].offset # DecHeaders[2].offset
    /\ DecHeaders[1].length # DecHeaders[2].length
    /\ Len(DecCf.sections) = 1
    /\ DecCf.sections[1].section.stype = DecHeaders[2].stype
    /\ DecCf.sections[1].section.offset = Some(from_le_bytes(DecHeaders[2].offset))

\* C23: after encode_to, on an empty buffer or behind other content, the
\* offset in each header is the index in the final buffer where the data of
\* that section starts: the length bytes from there are the section's data,
\* and each section's data starts where the one before ends.  For buffers
\* known by their sizes: the offset field of every header written is the
\* true offset.  (Not so from 2^32 bytes on: the offset is cut to 32 bits,
\* as C19 shows.)
C23_OffsetsAbsolute ==
    /\ (is_some(out) /\ encode_to(cf, EncInitial).outcome = "ok")
       => \A i \in 1..Len(cf.sections) :
             /\ SubSeq(EncBuf, WrittenOffset(i) + 1, WrittenOffset(i) + DataLen(i))
                   = cf.sections[i].section.data
             /\ i > 1 => WrittenOffset(i) = WrittenOffset(i - 1) + DataLen(i - 1)
    /\ is_some(layout)
       => \A k \in 1..Len(Lay.hdrs) :
             /\ u32_as_usize(Lay.hdrs[k].offset) = TrueOffset(k)
             /\ u32_as_usize(Lay.hdrs[k].length) = Lay.sections[k].data_size

====
